---- MODULE Spec2Model ----
(***************************************************************************)
(* A cycle-level model of the Transactron storage components, of the       *)
(* transaction scheduler they run under and of the priority encoders, and  *)
(* a model of the construction of the LSU reservation station.  One step   *)
(* of a specification of a clocked component is one clock cycle: the       *)
(* combinational signals are computed from the registers, the methods and  *)
(* transactions that run are determined, and the synchronous assignments   *)
(* are committed together at the clock edge.  One step of the encoder      *)
(* specification drives new inputs and lets the combinational outputs      *)
(* settle.  One step of the station specification runs __init__ or         *)
(* elaborate.  The address comparison of the station and the connected     *)
(* components helper of the scheduler are functions: one step of their     *)
(* specifications applies them to their arguments.                         *)
(***************************************************************************)
EXTENDS Integers, Sequences, FiniteSets, TLC

VARIABLES
    \* ---- transaction scheduler ----
    calls,      \* calls[t]: the methods transaction t calls (build time)
    prio,       \* prio[t]: priority rank of t, 1 is the highest (build time)
    req,        \* transactions whose request signal is high this cycle
    mready,     \* methods whose ready signal is high this cycle
    grant,      \* transactions granted this cycle
    \* ---- ContentAddressableMemory ----
    valids,         \* valids[i]: slot i holds an entry
    address_array,  \* address_array[i]: key stored in slot i
    data_array,     \* data_array[i]: data stored in slot i
    camPushed,      \* history: number of push calls that ran
    camHits,        \* history: number of pop calls that ran and hit
    camPrev,        \* history: the calls of the last cycle and the slots before it
    camTracked,     \* history: the latest push whose slot no pop has hit since
    camLive,        \* history: camLive[<<k, v>>]: the pairs (k, v) pushed and not yet returned by a pop
    camStray,       \* history: a pop hit returned a pair that was not among camLive
    \* ---- MemoryBank ----
    safe_writes,        \* constructor parameter
    granularity,        \* constructor parameter: TRUE for granularity = 1, FALSE for None
    mem,                \* the Memory: mem[a] is the word at address a
    read_data,          \* read_port.data, the output register of the read port
    read_output_valid,
    prev_read_addr,
    write_pending,
    write_args_prev,
    fifo_level,         \* zipper: number of entries of its argument FIFO
    fwd_reg,            \* zipper: the register of its result Forwarder
    fwd_valid,          \* zipper: reg_valid of its result Forwarder
    arch,               \* history: the memory as the write calls that ran, in order, define it
    written,            \* history: the addresses a write call has been run for
    reads,              \* history: the read_req calls whose response was not returned yet
    deferred,           \* history: the write call that ran and has not reached the write port
    lastRead,           \* history: the read_req call of the last cycle
    lastWrite,          \* history: the write call of the last cycle
    commit,             \* history: what the write port did in the last cycle
    bankPending,    \* history: the writes accepted and not yet written by the write port
    bankStray,      \* history: the write port wrote something no accepted write was waiting with
    \* ---- MultiPriorityEncoder, RingMultiPriorityEncoder ----
    input_width,    \* constructor parameter
    outputs_count,  \* constructor parameter
    enc_input,      \* circ.input, shared by the two circuits under test
    enc_first,      \* circ.first of the ring encoder
    enc_last,       \* circ.last of the ring encoder
    enc_outputs,    \* (outputs[j], valids[j]) of MultiPriorityEncoder, settled
    ring_outputs,   \* (outputs[j], valids[j]) of RingMultiPriorityEncoder, settled
    \* ---- LsuRS ----
    rs_entries,       \* constructor parameter
    rob_get_indices,  \* constructor parameter: "None" or "Method"
    rob_entries_bits, \* gen_params.rob_entries_bits
    xlen,             \* gen_params.isa.xlen
    lsu_phase,        \* "new", "constructed" (after __init__) or "elaborated"
    lsu_raised,       \* the exception __init__ or elaborate raised, or NoError
    lsu_defined,      \* the parts of the station elaborate has built
    addr_fst,         \* operands (s1_val, imm) of the first address compared
    addr_snd,         \* operands (s1_val, imm) of the second address compared
    addr_same,        \* what check_same_address_access returned for the two
    \* ---- _graph_ccs ----
    gr,             \* gr[v]: the adjacency list of vertex v, as the set of its members
    gr_keys,        \* the keys of gr in iteration order
    ccs,            \* the list _graph_ccs returned
    ccs_done        \* _graph_ccs has returned

schedVars == <<calls, prio, req, mready, grant>>
camVars == <<valids, address_array, data_array, camPushed, camHits, camPrev, camTracked,
             camLive, camStray>>
bankRegs == <<safe_writes, granularity, mem, read_data, read_output_valid, prev_read_addr,
              write_pending, write_args_prev, fifo_level, fwd_reg, fwd_valid>>
bankHist == <<arch, written, reads, deferred, lastRead, lastWrite, commit,
              bankPending, bankStray>>
bankVars == <<bankRegs, bankHist>>
encVars == <<input_width, outputs_count, enc_input, enc_first, enc_last,
             enc_outputs, ring_outputs>>
lsuBuild == <<rs_entries, rob_get_indices, rob_entries_bits, xlen,
              lsu_phase, lsu_raised, lsu_defined>>
lsuAddr == <<addr_fst, addr_snd, addr_same>>
lsuVars == <<lsuBuild, lsuAddr>>
graphVars == <<gr, gr_keys, ccs, ccs_done>>
vars == <<schedVars, camVars, bankVars, encVars, lsuVars, graphVars>>
otherThanLsu == <<schedVars, camVars, bankVars, encVars, graphVars>>

(***************************************************************************)
(* Transaction scheduler.  The manager itself (transactron/core/manager)   *)
(* is not among the sources; it is modelled from the specification, 4.2:   *)
(* a greedy highest-priority-first pass over the requesting actions.       *)
(***************************************************************************)
NTrans == 3
Trans == 1..NTrans
Methods == {1, 2}

\* The static conflict relation: two transactions that call the same method.
Conflict(a, b) == a # b /\ calls[a] \cap calls[b] # {}

\* A transaction takes part in arbitration when it requests and every method
\* it calls is ready.
Runnable(t, rq, rd) == t \in rq /\ calls[t] \subseteq rd

\* The transaction of priority rank k.
TransOfRank(k) == CHOOSE t \in Trans : prio[t] = k

HigherPrio(a, b) == prio[a] < prio[b]

\* A scheduler that grants every runnable transaction (no conflict check).
GrantRuleNoArbitration(t, g, rq, rd) == Runnable(t, rq, rd)

\* A scheduler that holds a transaction back whenever a conflicting
\* transaction of higher priority is runnable, granted or not.
GrantRuleBlockedByRunnable(t, g, rq, rd) ==
    /\ Runnable(t, rq, rd)
    /\ \A u \in Trans : Conflict(t, u) /\ HigherPrio(u, t) => ~Runnable(u, rq, rd)

\* grant = request & runnable & no already granted conflicting transaction.
GrantRule(t, g, rq, rd) ==
    Runnable(t, rq, rd) /\ \A u \in g : ~Conflict(t, u)

RECURSIVE GreedyPass(_, _, _)
\* The grants among the k transactions of highest priority.
GreedyPass(k, rq, rd) ==
    IF k = 0 THEN {}
    ELSE LET g == GreedyPass(k - 1, rq, rd)
             t == TransOfRank(k)
         IN  IF GrantRule(t, g, rq, rd) THEN g \cup {t} ELSE g

Schedule(rq, rd) == GreedyPass(NTrans, rq, rd)

\* The call-sites of method m, and those of them granted this cycle.
Callers(m) == {t \in Trans : m \in calls[t]}
GrantedCallers(m) == {t \in grant : m \in calls[t]}
\* A method runs when one of its callers is granted; the arguments of the
\* granted callers are combined onto its input.
MethodRun(m) == GrantedCallers(m) # {}
MethodArgs(m) == GrantedCallers(m)

PrioAssignments == {f \in [Trans -> Trans] : \A a, b \in Trans : a # b => f[a] # f[b]}

SchedIdle ==
    /\ calls = [t \in Trans |-> {}]
    /\ prio = [t \in Trans |-> t]
    /\ req = {}
    /\ mready = {}
    /\ grant = {}

\* The call graph and the priorities are fixed at build time.  Transactions
\* are numbered in the order of the sets of methods they call: renumbering
\* the transactions changes nothing, so every priority assignment over every
\* call graph is covered.
CallCode(ms) == (IF 1 \in ms THEN 1 ELSE 0) + (IF 2 \in ms THEN 2 ELSE 0)

SchedInit ==
    /\ calls \in [Trans -> SUBSET Methods]
    /\ \A t, u \in Trans : t < u => CallCode(calls[t]) <= CallCode(calls[u])
    /\ prio \in PrioAssignments
    /\ req = {}
    /\ mready = {}
    /\ grant = {}

\* One clock cycle of the scheduler: the request and ready signals of the
\* cycle are sampled and the grants computed combinationally.
SchedCycle ==
    /\ \E rq \in SUBSET Trans, rd \in SUBSET Methods :
          /\ req' = rq
          /\ mready' = rd
          /\ grant' = Schedule(rq, rd)
    /\ UNCHANGED <<calls, prio>>

\* The call-sites of method m that request it this cycle.
RequestingCallers(m) == {t \in Callers(m) : Runnable(t, req, mready)}

(***************************************************************************)
(* ContentAddressableMemory (transactron/lib/storage.py).                  *)
(***************************************************************************)
EntriesNumber == 3
Slots == 0..(EntriesNumber - 1)
CamKeys == {0, 1}
CamData == {0, 1}
\* Cap on the history counters, so that the state space is finite.
MaxPushes == 4

\* MultiPriorityEncoder(entries_number, 1): outputs[0] is the lowest index
\* whose input bit is set (0 when no bit is set).
PriorityEncoder(input) ==
    IF input = {} THEN 0 ELSE CHOOSE i \in input : \A j \in input : i <= j

\* encoder_valids.input = ~valids
FreeSlots == {i \in Slots : ~valids[i]}

\* A push that is ready whatever the valid bits are.
PushReadyAlways == TRUE

\* ready = ~valids.all()
PushReady == ~(\A i \in Slots : valids[i])

\* A push that takes the highest free slot.
PushIdHighest ==
    IF FreeSlots = {} THEN 0 ELSE CHOOSE i \in FreeSlots : \A j \in FreeSlots : j <= i

\* A push that takes the lowest slot, free or not.
PushIdFirstSlot == CHOOSE i \in Slots : \A j \in Slots : i <= j

\* id_push = encoder_valids.outputs[0]
PushId == PriorityEncoder(FreeSlots)

\* A match vector that compares the keys of the free slots too.
IfAddrIgnoringValids(addr) == {i \in Slots : address_array[i] = addr}

\* if_addr = Cat(addr == stored_addr for stored_addr in address_array) & valids
IfAddr(addr) == {i \in Slots : address_array[i] = addr /\ valids[i]}

\* A pop that takes the highest matching slot.
PopIdHighest(addr) ==
    IF IfAddr(addr) = {} THEN 0
    ELSE CHOOSE i \in IfAddr(addr) : \A j \in IfAddr(addr) : j <= i

\* id = encoder_addr.outputs[0]
PopId(addr) == PriorityEncoder(IfAddr(addr))

\* The value pop returns: data_to_send keeps its reset value on a miss.
PopResult(addr) ==
    IF IfAddr(addr) # {}
    THEN [data |-> data_array[PopId(addr)], not_found |-> 0]
    ELSE [data |-> 0, not_found |-> 1]

\* def_method(m, self.pop): no ready argument, so the default C(1).
PopReady == TRUE

\* What the environment does with push and pop in a cycle: run is FALSE
\* when the method is not called.
NoPush == [run |-> FALSE, addr |-> 0, data |-> 0]
PushCalls == {NoPush} \cup [run : {TRUE}, addr : CamKeys, data : CamData]
NoPop == [run |-> FALSE, addr |-> 0]
PopCalls == {NoPop} \cup [run : {TRUE}, addr : CamKeys]
NoTracked == [run |-> FALSE, addr |-> 0, data |-> 0, id |-> 0]

CamIdle ==
    /\ valids = [i \in Slots |-> FALSE]
    /\ address_array = [i \in Slots |-> 0]
    /\ data_array = [i \in Slots |-> 0]
    /\ camPushed = 0
    /\ camHits = 0
    /\ camPrev = [push |-> NoPush, pop |-> NoPop,
                  result |-> [data |-> 0, not_found |-> 1],
                  valids |-> [i \in Slots |-> FALSE],
                  address_array |-> [i \in Slots |-> 0],
                  data_array |-> [i \in Slots |-> 0],
                  tracked |-> NoTracked, push_id |-> 0, pop_id |-> 0]
    /\ camTracked = NoTracked
    /\ camLive = [kv \in CamKeys \X CamData |-> 0]
    /\ camStray = FALSE

CamInit == CamIdle

\* A valids update in which a pop hit leaves the valid bit of its slot set.
ValidsNextPopKeeps(ps, pp) ==
    [i \in Slots |-> IF ps.run /\ i = PushId THEN TRUE ELSE valids[i]]

\* The synchronous assignments to valids of a cycle in which push and pop
\* run as ps and pp.  The assignment of pop comes later in the code and wins
\* over that of push on the same bit.
ValidsNext(ps, pp) ==
    [i \in Slots |->
        IF pp.run /\ IfAddr(pp.addr) # {} /\ i = PopId(pp.addr) THEN FALSE
        ELSE IF ps.run /\ i = PushId THEN TRUE
        ELSE valids[i]]

\* address_array[id].eq(addr) of push
AddressArrayNext(ps) ==
    IF ps.run THEN [address_array EXCEPT ![PushId] = ps.addr] ELSE address_array

\* A push that leaves the data array as it is.
DataArrayNextStale(ps) == data_array

\* data_array[id].eq(data) of push
DataArrayNext(ps) ==
    IF ps.run THEN [data_array EXCEPT ![PushId] = ps.data] ELSE data_array

\* History: the latest push whose slot no pop has hit since.
TrackedNext(ps, pp) ==
    IF ps.run THEN [run |-> TRUE, addr |-> ps.addr, data |-> ps.data, id |-> PushId]
    ELSE IF pp.run /\ IfAddr(pp.addr) # {} /\ PopId(pp.addr) = camTracked.id
         THEN NoTracked
    ELSE camTracked

\* History: the pairs pushed and not yet returned.  The pair a pop hit
\* returns is taken out of the pairs that were live before the cycle, then
\* the pair of the push of the cycle is put in.
LiveNext(ps, pp) ==
    LET hit == pp.run /\ PopResult(pp.addr).not_found = 0
        got == <<pp.addr, PopResult(pp.addr).data>>
        popped == IF hit /\ camLive[got] > 0
                  THEN [camLive EXCEPT ![got] = @ - 1] ELSE camLive
    IN  IF ps.run THEN [popped EXCEPT ![<<ps.addr, ps.data>>] = @ + 1] ELSE popped

\* History: a pop hit returned a pair that no push had left live.
StrayNext(pp) ==
    \/ camStray
    \/ /\ pp.run /\ PopResult(pp.addr).not_found = 0
       /\ camLive[<<pp.addr, PopResult(pp.addr).data>>] = 0

\* One clock cycle of the CAM: push and pop are called by different
\* transactions and may run in the same cycle.
CamCycle ==
    \E ps \in PushCalls, pp \in PopCalls :
        /\ ps.run => PushReady /\ camPushed < MaxPushes
        /\ pp.run => PopReady
        /\ ps.run \/ pp.run
        /\ valids' = ValidsNext(ps, pp)
        /\ address_array' = AddressArrayNext(ps)
        /\ data_array' = DataArrayNext(ps)
        /\ camPushed' = IF ps.run THEN camPushed + 1 ELSE camPushed
        /\ camHits' = IF pp.run /\ IfAddr(pp.addr) # {} THEN camHits + 1 ELSE camHits
        /\ camPrev' = [push |-> ps, pop |-> pp,
                       result |-> IF pp.run THEN PopResult(pp.addr)
                                  ELSE [data |-> 0, not_found |-> 1],
                       valids |-> valids,
                       address_array |-> address_array,
                       data_array |-> data_array,
                       tracked |-> camTracked,
                       push_id |-> PushId, pop_id |-> PopId(pp.addr)]
        /\ camTracked' = TrackedNext(ps, pp)
        /\ camLive' = LiveNext(ps, pp)
        /\ camStray' = StrayNext(pp)

(***************************************************************************)
(* MemoryBank (transactron/lib/storage.py).                                *)
(***************************************************************************)
ElemCount == 2
Addrs == 0..(ElemCount - 1)
\* The data layout is one bit wide when granularity is None; with
\* granularity set it is Parts bits wide and each bit is a part of its own.
Parts == 2
Width == IF granularity THEN Parts ELSE 1
Words == 0..(2 ^ Width - 1)
\* The mask field of the write layout has width // granularity bits.  With
\* granularity set the callers write with one mask bit set; without it the
\* layout has no mask and the records carry 0.
WriteMasks == IF granularity THEN {2 ^ p : p \in 0..(Parts - 1)} ELSE {0}
\* With granularity set the callers write the all-ones word.
WriteWords == IF granularity THEN {2 ^ Parts - 1} ELSE Words

\* Bit p of the number x.
BitOf(x, p) == (x \div (2 ^ p)) % 2

RECURSIVE MergeParts(_, _, _, _)
\* The word that has, in each of the parts 0..n-1, the part of data where the
\* mask bit is 1 and the part of old where it is 0.
MergeParts(old, data, mask, n) ==
    IF n = 0 THEN 0
    ELSE MergeParts(old, data, mask, n - 1)
         + (2 ^ (n - 1)) * (IF BitOf(mask, n - 1) = 1 THEN BitOf(data, n - 1)
                            ELSE BitOf(old, n - 1))

\* What a write call asks for at its address: the whole word without
\* granularity, the masked parts with it.
AskedWord(old, wr) ==
    IF granularity THEN MergeParts(old, wr.data, wr.mask, Parts) ELSE wr.data
\* Cap on the history counter of the cycles a write has been deferred.
MaxAge == 3
\* ArgumentsToResultsZipper keeps the arguments in a FIFO of depth 2.
FifoDepth == 2

NoRead == [run |-> FALSE, addr |-> 0]
ReadCalls == {NoRead} \cup [run : {TRUE}, addr : Addrs]
NoWrite == [run |-> FALSE, addr |-> 0, data |-> 0, mask |-> 0]
WriteCalls ==
    {NoWrite} \cup [run : {TRUE}, addr : Addrs, data : WriteWords, mask : WriteMasks]
NoDeferred == [valid |-> FALSE, addr |-> 0, data |-> 0, age |-> 0, kind |-> "none"]
NoCommit == [en |-> FALSE, addr |-> 0, data |-> 0, lat |-> 0, kind |-> "none"]

\* zipper.write_args is fifo.write: ready while the FIFO is not full.
ZipperWriteArgsReady == fifo_level < FifoDepth

\* A read_req that is not ready only while the pending write is to the
\* address asked for.
ReadReqReadySameAddr(addr) ==
    ~(write_pending /\ write_args_prev.addr = addr) /\ ZipperWriteArgsReady

\* def_method(m, self.read_req, ~write_pending), calling zipper.write_args
ReadReqReady(addr) == ~write_pending /\ ZipperWriteArgsReady

\* _internal_read_resp_trans: request=read_output_valid, and it calls
\* zipper.write_results, which is forwarder.write: ready = ~reg_valid.
ReadRespTransRuns == read_output_valid /\ ~fwd_valid

\* read_resp calls zipper.read: fifo.read (ready while not empty) and
\* forwarder.read (ready = reg_valid | write.run).
ReadRespReady == fifo_level > 0 /\ (fwd_valid \/ ReadRespTransRuns)

\* What read_resp returns: the forwarder's register when it is valid, else
\* the value being written to the forwarder in this cycle.
ReadRespData == IF fwd_valid THEN fwd_reg ELSE read_data

\* A write that is ready while a write is pending.
WriteReadyAlways == TRUE

\* def_method(m, self.write, ~write_pending)
WriteReady == ~write_pending

\* read_port.addr: prev_read_addr, overridden by a running read_req.
ReadPortAddr(rr) == IF rr.run THEN rr.addr ELSE prev_read_addr

\* A write deferred only for a read_req of the same cycle.
WriteHazardSameCycleOnly(wr, rr) ==
    /\ safe_writes /\ wr.run
    /\ wr.addr = ReadPortAddr(rr) /\ rr.run

\* A write deferred in the unsafe mode too.
WriteHazardAnyMode(wr, rr) ==
    /\ wr.run
    /\ wr.addr = ReadPortAddr(rr)
    /\ (read_output_valid \/ rr.run)

\* The condition under which write defers itself:
\* safe_writes and (arg.addr == read_port.addr) & (read_output_valid | read_req.run)
WriteHazard(wr, rr) ==
    /\ safe_writes /\ wr.run
    /\ wr.addr = ReadPortAddr(rr)
    /\ (read_output_valid \/ rr.run)

\* write_req: set by a write that is not deferred.
WriteReq(wr, rr) == wr.run /\ ~WriteHazard(wr, rr)

\* A write_trans that does not wait for the read output to be taken.
WriteTransRunsEarly(wr, rr) == WriteReq(wr, rr) \/ write_pending

\* write_trans: request = write_req | (~read_output_valid & write_pending)
WriteTransRuns(wr, rr) ==
    WriteReq(wr, rr) \/ (~read_output_valid /\ write_pending)

\* Write arguments taken from the write call alone.
WriteArgsCallOnly(wr) == [addr |-> wr.addr, data |-> wr.data, mask |-> wr.mask]

\* write_args: the arguments of write, replaced by write_args_prev when a
\* write is pending (safe mode).
WriteArgs(wr) ==
    IF safe_writes /\ write_pending
    THEN write_args_prev
    ELSE [addr |-> wr.addr, data |-> wr.data, mask |-> wr.mask]

\* write_port = mem.write_port(): no granularity is given to the port, so
\* its en signal is width // width = 1 bit wide.
WritePortEnBits == 1

\* write_port.en: 1 without granularity, else write_args.mask, cut to the
\* width of en by the assignment.
WritePortEn(wr) ==
    IF granularity THEN WriteArgs(wr).mask % (2 ^ WritePortEnBits) ELSE 1

\* The word the write port leaves at its address: each enable bit covers
\* width // len(en) bits of the word.
WritePortWord(old, wr) ==
    IF ~granularity \/ WritePortEnBits = 1
    THEN (IF WritePortEn(wr) = 1 THEN WriteArgs(wr).data ELSE old)
    ELSE MergeParts(old, WriteArgs(wr).data, WritePortEn(wr), Parts)

\* The memory after the clock edge: the write port is driven by write_trans.
MemNext(wr, rr) ==
    IF WriteTransRuns(wr, rr)
    THEN [mem EXCEPT ![WriteArgs(wr).addr] = WritePortWord(@, wr)]
    ELSE mem

\* mem.read_port() is a synchronous, transparent read port (the defaults of
\* Memory.read_port): after the clock edge its data output is the word at
\* the read_port.addr of the cycle, the write of the same cycle included.
ReadDataNext(wr, rr) == MemNext(wr, rr)[ReadPortAddr(rr)]

\* A read_output_valid on which the clearing by the response transaction
\* wins over the setting by read_req.
ReadOutputValidNextCleared(rr) ==
    IF ReadRespTransRuns THEN FALSE
    ELSE IF rr.run THEN TRUE
    ELSE read_output_valid

\* read_output_valid is cleared by _internal_read_resp_trans and set by
\* read_req, whose assignment comes later in the code and wins.
ReadOutputValidNext(rr) ==
    IF rr.run THEN TRUE
    ELSE IF ReadRespTransRuns THEN FALSE
    ELSE read_output_valid

\* The registers and the histories after reset.
BankReset ==
    /\ mem = [a \in Addrs |-> 0]
    /\ read_data = 0
    /\ read_output_valid = FALSE
    /\ prev_read_addr = 0
    /\ write_pending = FALSE
    /\ write_args_prev = [addr |-> 0, data |-> 0, mask |-> 0]
    /\ fifo_level = 0
    /\ fwd_reg = 0
    /\ fwd_valid = FALSE
    /\ arch = [a \in Addrs |-> 0]
    /\ written = {}
    /\ reads = <<>>
    /\ deferred = NoDeferred
    /\ lastRead = NoRead
    /\ lastWrite = NoWrite
    /\ commit = NoCommit
    /\ bankPending = <<>>
    /\ bankStray = FALSE

BankIdle ==
    /\ safe_writes = TRUE
    /\ granularity = FALSE
    /\ BankReset

\* The bank built with granularity set, under the safe policy.
GranBankInit ==
    /\ safe_writes = TRUE
    /\ granularity = TRUE
    /\ BankReset

\* The bank built without granularity, under the safe policy.
SafeBankInit ==
    /\ safe_writes = TRUE
    /\ granularity = FALSE
    /\ BankReset

\* The bank built without granularity, under either policy.
BankInit ==
    /\ safe_writes \in BOOLEAN
    /\ granularity = FALSE
    /\ BankReset

\* History of the outstanding reads after a cycle: the read whose response
\* was returned leaves, a write call notes its value on the reads of its
\* address that are outstanding, and the new read enters with the value the
\* earlier write calls left at its address.
ReadsNext(rr, rp, wr) ==
    LET left == IF rp THEN Tail(reads) ELSE reads
        note(e) == IF wr.run /\ wr.addr = e.addr
                   THEN [e EXCEPT !.wr = @ \cup {wr.data}] ELSE e
        old == [i \in 1..Len(left) |-> note(left[i])]
        new == [addr |-> rr.addr, val |-> arch[rr.addr], aw |-> rr.addr \in written,
                wr |-> IF wr.run /\ wr.addr = rr.addr THEN {wr.data} ELSE {},
                sc |-> wr.run /\ wr.addr = rr.addr]
    IN  IF rr.run THEN Append(old, new) ELSE old

\* History of the deferred write after a cycle.
DeferredNext(rr, wr) ==
    IF wr.run /\ ~WriteTransRuns(wr, rr)
    THEN [valid |-> TRUE, addr |-> wr.addr, data |-> wr.data, age |-> 1,
          kind |-> IF rr.run THEN "same" ELSE "prev"]
    ELSE IF deferred.valid /\ ~WriteTransRuns(wr, rr)
    THEN [deferred EXCEPT !.age = IF @ < MaxAge THEN @ + 1 ELSE @]
    ELSE NoDeferred

\* History of the write port: what it wrote in the cycle, and how many
\* cycles after its write call.
CommitNext(rr, wr) ==
    IF WriteTransRuns(wr, rr)
    THEN [en |-> TRUE, addr |-> WriteArgs(wr).addr, data |-> WriteArgs(wr).data,
          lat |-> IF wr.run THEN 0 ELSE deferred.age,
          kind |-> IF wr.run THEN "none" ELSE deferred.kind]
    ELSE NoCommit

RECURSIVE WithoutFirst(_, _)
\* The list q without the first occurrence of x.
WithoutFirst(q, x) ==
    IF q = <<>> THEN <<>>
    ELSE IF Head(q) = x THEN Tail(q)
    ELSE <<Head(q)>> \o WithoutFirst(Tail(q), x)

\* The members of the list q.
Members(q) == {q[i] : i \in 1..Len(q)}

\* History of the writes accepted and not yet written: the write call of
\* the cycle joins them, and what the write port writes in the cycle leaves.
\* At most two are kept, which is enough to see one too many.
PendingNext(rr, wr) ==
    LET called == IF wr.run /\ Len(bankPending) < 2
                  THEN Append(bankPending, WriteArgsCallOnly(wr))
                  ELSE bankPending
    IN  IF WriteTransRuns(wr, rr) THEN WithoutFirst(called, WriteArgs(wr)) ELSE called

\* History: the write port wrote an address and data that no accepted write
\* was waiting with.
StrayWriteNext(rr, wr) ==
    \/ bankStray
    \/ /\ WriteTransRuns(wr, rr)
       /\ WriteArgs(wr) \notin Members(bankPending)
       /\ ~(wr.run /\ WriteArgs(wr) = WriteArgsCallOnly(wr))

\* One clock cycle of the bank in which read_req, read_resp and write are
\* called as rr, rp and wr.  They are called by different transactions,
\* which share no method with each other or with the two internal
\* transactions: each runs when it is called and ready.
BankStep(rr, rp, wr) ==
    /\ rr.run => ReadReqReady(rr.addr)
    /\ rp => ReadRespReady
    /\ wr.run => WriteReady
    /\ mem' = MemNext(wr, rr)
    /\ read_data' = ReadDataNext(wr, rr)
    /\ read_output_valid' = ReadOutputValidNext(rr)
    /\ prev_read_addr' = IF rr.run THEN rr.addr ELSE prev_read_addr
    /\ write_pending' =
          IF WriteHazard(wr, rr) THEN TRUE
          ELSE IF WriteTransRuns(wr, rr) THEN FALSE
          ELSE write_pending
    /\ write_args_prev' =
          IF WriteHazard(wr, rr) THEN [addr |-> wr.addr, data |-> wr.data, mask |-> wr.mask]
          ELSE write_args_prev
    /\ fifo_level' = fifo_level + (IF rr.run THEN 1 ELSE 0) - (IF rp THEN 1 ELSE 0)
    /\ fwd_reg' = IF ReadRespTransRuns THEN read_data ELSE fwd_reg
    /\ fwd_valid' =
          IF rp THEN FALSE
          ELSE IF ReadRespTransRuns THEN TRUE
          ELSE fwd_valid
    /\ arch' = IF wr.run THEN [arch EXCEPT ![wr.addr] = AskedWord(@, wr)] ELSE arch
    /\ written' = IF wr.run THEN written \cup {wr.addr} ELSE written
    /\ reads' = ReadsNext(rr, rp, wr)
    /\ deferred' = DeferredNext(rr, wr)
    /\ lastRead' = rr
    /\ lastWrite' = wr
    /\ commit' = CommitNext(rr, wr)
    /\ bankPending' = PendingNext(rr, wr)
    /\ bankStray' = StrayWriteNext(rr, wr)
    /\ UNCHANGED <<safe_writes, granularity>>

\* One clock cycle of the bank, whatever is called in it.
BankCycle ==
    \E rr \in ReadCalls, rp \in BOOLEAN, wr \in WriteCalls : BankStep(rr, rp, wr)

(***************************************************************************)
(* MultiPriorityEncoder and RingMultiPriorityEncoder.  The circuits        *)
(* (transactron/utils/amaranth_ext.py) are not among the sources; they are *)
(* modelled from the specification, 4.1.  The expected values and the      *)
(* comparison are those of test/transactron/utils/test_amaranth_ext.py.    *)
(* A bit vector is the integer the test drives into circ.input.            *)
(***************************************************************************)
MaxInputWidth == 4
MaxOutputsCount == 3

\* Bit i of the integer x.
Bit(x, i) == (x \div (2 ^ i)) % 2

\* The lowest index below width whose bit is set in x; x has one.
LowestSet(width, x) ==
    CHOOSE i \in 0..(width - 1) :
        Bit(x, i) = 1 /\ \A j \in 0..(i - 1) : Bit(x, j) = 0

\* An encoder whose outputs all take the lowest requester: a granted index
\* is not excluded from the later outputs.
EncoderChainRepeat(width, count, x) ==
    [j \in 1..count |->
        IF x = 0 THEN [output |-> 0, valid |-> 0]
        ELSE [output |-> LowestSet(width, x), valid |-> 1]]

\* Output by output: the lowest index wins first, and once an index is
\* granted it is excluded from the subsequent outputs; an unused output is
\* invalid (and holds the reset value 0).
RECURSIVE EncoderChain(_, _, _)
EncoderChain(width, count, x) ==
    IF count = 0 THEN <<>>
    ELSE IF x = 0
         THEN <<[output |-> 0, valid |-> 0]>> \o EncoderChain(width, count - 1, x)
    ELSE <<[output |-> LowestSet(width, x), valid |-> 1]>>
             \o EncoderChain(width, count - 1, x - 2 ^ LowestSet(width, x))

\* MultiPriorityEncoder(input_width, outputs_count): input is a signal of
\* input_width bits.
MultiPriorityEncoder(width, count, input) ==
    EncoderChain(width, count, input % (2 ^ width))

\* A ring encoder that masks the requests with the window but ranks them by
\* absolute index, not by position in the window.
RingAbsoluteOrder(width, count, input, first, last) ==
    LET InWindow(i) == IF first <= last THEN first <= i /\ i < last
                       ELSE i >= first \/ i < last
        Requesting == {i \in 0..(width - 1) : InWindow(i) /\ Bit(input, i) = 1}
        Below(i) == {k \in Requesting : k < i}
    IN [j \in 1..count |->
          IF Cardinality(Requesting) < j THEN [output |-> first, valid |-> 0]
          ELSE [output |-> CHOOSE i \in Requesting : Cardinality(Below(i)) = j - 1,
                valid |-> 1]]

\* RingMultiPriorityEncoder(input_width, outputs_count): the requests are
\* doubled, cut at last (moved up by the width when last is below first)
\* and shifted down by first, so that position in the window [first, last)
\* ranks them; the winners are moved back by first, modulo the width.
RingMultiPriorityEncoder(width, count, input, first, last) ==
    LET double_input == (input % (2 ^ width)) * (2 ^ width) + (input % (2 ^ width))
        last_moved == IF first > last THEN width + last ELSE last
        multi_enc_input == (double_input % (2 ^ last_moved)) \div (2 ^ first)
        multi_enc == MultiPriorityEncoder(width, count, multi_enc_input)
    IN [j \in 1..count |->
          [output |-> (multi_enc[j].output + first) % width,
           valid |-> multi_enc[j].valid]]

\* An element of the list get_expected returns: an index or None.
Place(i) == [none |-> FALSE, place |-> i]
NonePlace == [none |-> TRUE, place |-> 0]

\* TestMultiPriorityEncoder.get_expected, the loop from index i on.
RECURSIVE get_expected_loop(_, _, _)
get_expected_loop(i, width, input) ==
    IF i >= width THEN <<>>
    ELSE (IF input % 2 = 1 THEN <<Place(i)>> ELSE <<>>)
             \o get_expected_loop(i + 1, width, input \div 2)

\* TestMultiPriorityEncoder.get_expected
get_expected(width, count, input) ==
    get_expected_loop(0, width, input) \o [j \in 1..count |-> NonePlace]

\* TestRingMultiPriorityEncoder.get_expected, the loop from index i on.
RECURSIVE ring_get_expected_loop(_, _, _, _, _)
ring_get_expected_loop(i, width, input, first, last) ==
    IF i >= 2 * width THEN <<>>
    ELSE (IF i >= first /\ i < last /\ input % 2 = 1
          THEN <<Place(i % width)>> ELSE <<>>)
             \o ring_get_expected_loop(i + 1, width, input \div 2, first, last)

\* TestRingMultiPriorityEncoder.get_expected
ring_get_expected(width, count, input, first, last) ==
    ring_get_expected_loop(0, width, (input * (2 ^ width)) + input, first,
                           IF last < first THEN last + width ELSE last)
        \o [j \in 1..count |-> NonePlace]

\* The assertions of process: zip(expected_output, circ.outputs,
\* circ.valids) stops at the outputs_count outputs of the circuit.
ProcessAsserts(expected, outs) ==
    \A j \in 1..Len(outs) :
        IF expected[j].none THEN outs[j].valid = 0
        ELSE outs[j].valid = 1 /\ outs[j].output = expected[j].place

EncIdle ==
    /\ input_width = 1
    /\ outputs_count = 1
    /\ enc_input = 0
    /\ enc_first = 0
    /\ enc_last = 0
    /\ enc_outputs = MultiPriorityEncoder(1, 1, 0)
    /\ ring_outputs = RingMultiPriorityEncoder(1, 1, 0, 0, 0)

\* The circuits as built by test_random, their inputs at the reset value.
EncInit ==
    /\ input_width \in 1..MaxInputWidth
    /\ outputs_count \in 1..MaxOutputsCount
    /\ enc_input = 0
    /\ enc_first = 0
    /\ enc_last = 0
    /\ enc_outputs = MultiPriorityEncoder(input_width, outputs_count, 0)
    /\ ring_outputs = RingMultiPriorityEncoder(input_width, outputs_count, 0, 0, 0)

\* One iteration of process: the inputs are driven and the combinational
\* outputs settle.
EncProcess ==
    \E input \in 0..(2 ^ input_width - 1),
       first \in 0..(input_width - 1), last \in 0..(input_width - 1) :
        /\ enc_input' = input
        /\ enc_first' = first
        /\ enc_last' = last
        /\ enc_outputs' = MultiPriorityEncoder(input_width, outputs_count, input)
        /\ ring_outputs' =
              RingMultiPriorityEncoder(input_width, outputs_count, input, first, last)
        /\ UNCHANGED <<input_width, outputs_count>>

(***************************************************************************)
(* LsuRS (coreblocks/func_blocks/fu/lsu/lsu_rs.py).  The station is a      *)
(* Python object that builds a circuit: __init__ declares the layout of a  *)
(* slot and creates the slots, elaborate builds the logic and defines the  *)
(* methods.  A slot, data[i], is a view over internal_layout, and naming a *)
(* field of a view that its layout does not declare raises AttributeError  *)
(* at the statement that names it.  The model follows elaborate statement  *)
(* by statement over the fields each one names: what was built before a    *)
(* statement raises is all there is of the station.  The address           *)
(* arithmetic, calculate_address and check_same_address_access, are        *)
(* functions of the object and are modelled as functions.                  *)
(***************************************************************************)
RsEntries == 3
\* The largest gen_params.isa.xlen; the address arithmetic is done at this
\* width.
XLen == 3
\* The largest gen_params.rob_entries_bits.
MaxRobEntriesBits == 3

\* internal_layout: the fields of a slot.
internal_layout == {"rs_data", "full", "reserved", "depends"}

NoError == [exc |-> "none", line |-> 0, field |-> "none"]

\* The parts of the station in the order elaborate builds them:
\* reserved_signals with slot_available and select_possible, data_ready,
\* the method select, the method insert, and the transaction that reads
\* rob_get_indices into rob_start_idx.
ElaborateParts == <<"reserved_signals", "data_ready", "select", "insert", "rob_start_idx">>

\* The fields of a slot that the statements of a part name, in the order
\* the statements are evaluated, with the line of each and whether the
\* statement assigns the field.  insert calls calculate_address (lines 48
\* and 49) for every slot before it stores the entry (lines 106 to 109).
FieldAccesses(part) ==
    CASE part = "reserved_signals" ->
            <<[line |-> 74, field |-> "reserved", write |-> FALSE]>>
      [] part = "data_ready" ->
            <<[line |-> 80, field |-> "rs_data", write |-> FALSE],
              [line |-> 80, field |-> "rs_data", write |-> FALSE],
              [line |-> 80, field |-> "rec_full", write |-> FALSE]>>
      [] part = "select" -> <<>>
      [] part = "insert" ->
            <<[line |-> 48, field |-> "rs_data", write |-> FALSE],
              [line |-> 48, field |-> "full", write |-> FALSE],
              [line |-> 49, field |-> "rs_data", write |-> FALSE],
              [line |-> 49, field |-> "rs_data", write |-> FALSE],
              [line |-> 106, field |-> "rs_data", write |-> TRUE],
              [line |-> 107, field |-> "rec_full", write |-> TRUE],
              [line |-> 108, field |-> "rec_reserved", write |-> TRUE],
              [line |-> 109, field |-> "depends", write |-> TRUE]>>
      [] part = "rob_start_idx" -> <<>>

\* The fields a part reads and the fields it assigns.
FieldsRead(part) ==
    {FieldAccesses(part)[n].field :
        n \in {n \in 1..Len(FieldAccesses(part)) : ~FieldAccesses(part)[n].write}}
FieldsWritten(part) ==
    {FieldAccesses(part)[n].field :
        n \in {n \in 1..Len(FieldAccesses(part)) : FieldAccesses(part)[n].write}}

\* elaborate from part k on, with the parts in built already there: the
\* first statement that names a field internal_layout does not declare
\* raises, and nothing after it is built.
RECURSIVE elaborate_from(_, _)
elaborate_from(k, built) ==
    IF k > Len(ElaborateParts)
    THEN [defined |-> built, raised |-> NoError]
    ELSE LET acc == FieldAccesses(ElaborateParts[k])
             bad == {n \in 1..Len(acc) : acc[n].field \notin internal_layout}
         IN  IF bad # {}
             THEN LET n == CHOOSE n \in bad : \A o \in bad : n <= o
                  IN  [defined |-> built,
                       raised |-> [exc |-> "AttributeError", line |-> acc[n].line,
                                   field |-> acc[n].field]]
             ELSE elaborate_from(k + 1, built \cup {ElaborateParts[k]})

elaborate == elaborate_from(1, {})

\* The operands of an address: s1_val and imm, xlen bits each.
Operands == [s1_val : 0..(2 ^ XLen - 1), imm : 0..(2 ^ XLen - 1)]

\* addr = s1_val + imm of two xlen-bit operands: the sum keeps its carry,
\* it has xlen + 1 bits.
AddrSum(d) == (d.s1_val + d.imm) % (2 ^ (XLen + 1))

\* check_same_address_access: (addr1 >> 2) == (addr2 >> 2)
check_same_address_access(addr1, addr2) == (addr1 \div 4) = (addr2 \div 4)

NoCompare == [done |-> FALSE, same |-> FALSE]

LsuBuildIdle ==
    /\ rs_entries = 1
    /\ rob_get_indices = "Method"
    /\ rob_entries_bits = 1
    /\ xlen = XLen
    /\ lsu_phase = "new"
    /\ lsu_raised = NoError
    /\ lsu_defined = {}

LsuAddrIdle ==
    /\ addr_fst = [s1_val |-> 0, imm |-> 0]
    /\ addr_snd = [s1_val |-> 0, imm |-> 0]
    /\ addr_same = NoCompare

LsuIdle == LsuBuildIdle /\ LsuAddrIdle

\* The arguments LsuRS is constructed with; nothing has run yet.
LsuInit ==
    /\ rs_entries \in 1..RsEntries
    /\ rob_get_indices \in {"None", "Method"}
    /\ rob_entries_bits \in 1..MaxRobEntriesBits
    /\ xlen \in 1..XLen
    /\ lsu_phase = "new"
    /\ lsu_raised = NoError
    /\ lsu_defined = {}
    /\ LsuAddrIdle

\* __init__: declares the layout and the methods, creates the slots, and
\* asserts that rob_get_indices was given.
LsuConstruct ==
    /\ lsu_phase = "new"
    /\ lsu_phase' = "constructed"
    /\ lsu_raised' = IF rob_get_indices = "None"
                     THEN [exc |-> "AssertionError", line |-> 43, field |-> "none"]
                     ELSE NoError
    /\ UNCHANGED <<rs_entries, rob_get_indices, rob_entries_bits, xlen, lsu_defined>>
    /\ UNCHANGED lsuAddr
    /\ UNCHANGED otherThanLsu

\* elaborate, called on a constructed station.  The loops over the slots
\* run rs_entries >= 1 times and name the same fields for every slot.
LsuElaborate ==
    /\ lsu_phase = "constructed"
    /\ lsu_raised = NoError
    /\ lsu_phase' = "elaborated"
    /\ lsu_raised' = elaborate.raised
    /\ lsu_defined' = elaborate.defined
    /\ UNCHANGED <<rs_entries, rob_get_indices, rob_entries_bits, xlen>>
    /\ UNCHANGED lsuAddr
    /\ UNCHANGED otherThanLsu

\* Two addresses, each computed from its operands as calculate_address and
\* insert compute it.
LsuAddrInit ==
    /\ LsuBuildIdle
    /\ addr_fst \in Operands
    /\ addr_snd \in Operands
    /\ addr_same = NoCompare

\* check_same_address_access applied to the two sums.
LsuCompare ==
    /\ ~addr_same.done
    /\ addr_same' = [done |-> TRUE,
                     same |-> check_same_address_access(AddrSum(addr_fst),
                                                        AddrSum(addr_snd))]
    /\ UNCHANGED <<addr_fst, addr_snd>>
    /\ UNCHANGED lsuBuild
    /\ UNCHANGED otherThanLsu

(***************************************************************************)
(* _graph_ccs (transactron/utils/transactron_helpers.py).                  *)
(***************************************************************************)
NVertices == 3
Vertices == 1..NVertices

RECURSIVE AscendingList(_)
\* The members of a set of vertices as a list, in ascending order.
AscendingList(S) ==
    IF S = {} THEN <<>>
    ELSE LET lo == CHOOSE x \in S : \A y \in S : x <= y
         IN  <<lo>> \o AscendingList(S \ {lo})

\* The vertices in descending order.
DescendingKeys == [i \in 1..NVertices |-> NVertices + 1 - i]

\* An adjacency list that is always empty.
NeighboursNone(w) == <<>>

\* gr[w], the adjacency list of w.
Neighbours(w) == AscendingList(gr[w])

RECURSIVE graph_while(_, _, _)
\* The while loop: q is a stack, popped at its end; a vertex popped for the
\* first time is added to visited and to cc, and its adjacency list is
\* pushed.
graph_while(q, visited, cc) ==
    IF q = <<>> THEN [visited |-> visited, cc |-> cc]
    ELSE LET w == q[Len(q)]
             rest == SubSeq(q, 1, Len(q) - 1)
         IN  IF w \in visited THEN graph_while(rest, visited, cc)
             ELSE graph_while(rest \o Neighbours(w), visited \cup {w}, cc \cup {w})

RECURSIVE graph_for(_, _, _)
\* The for loop over gr.keys(), from the i-th key on: a non-empty cc is
\* appended to the result and a fresh one is started.
graph_for(i, visited, out) ==
    IF i > Len(gr_keys) THEN out
    ELSE LET r == graph_while(<<gr_keys[i]>>, visited, {})
         IN  graph_for(i + 1, r.visited,
                       IF r.cc # {} THEN Append(out, r.cc) ELSE out)

\* _graph_ccs(gr)
_graph_ccs == graph_for(1, {}, <<>>)

GraphIdle ==
    /\ gr = [v \in Vertices |-> {}]
    /\ gr_keys = <<>>
    /\ ccs = <<>>
    /\ ccs_done = FALSE

\* The argument: any directed graph on the vertices, every vertex a key of
\* the mapping, the keys inserted in ascending or in descending order.  Any
\* other insertion order is one of these on a renamed graph.
GraphInit ==
    /\ gr \in [Vertices -> SUBSET Vertices]
    /\ gr_keys \in {AscendingList(Vertices), DescendingKeys}
    /\ ccs = <<>>
    /\ ccs_done = FALSE

\* The call ccs = _graph_ccs(gr).
GraphCall ==
    /\ ~ccs_done
    /\ ccs' = _graph_ccs
    /\ ccs_done' = TRUE
    /\ UNCHANGED <<gr, gr_keys>>

(***************************************************************************)
(* Specifications: one per component, the other components idle.           *)
(***************************************************************************)
SchedNext == SchedCycle /\ UNCHANGED <<camVars, bankVars, encVars, lsuVars, graphVars>>

SchedSpecInit == SchedInit /\ CamIdle /\ BankIdle /\ EncIdle /\ LsuIdle /\ GraphIdle
SchedSpec == SchedSpecInit /\ [][SchedNext]_vars

CamNext == CamCycle /\ UNCHANGED <<schedVars, bankVars, encVars, lsuVars, graphVars>>

CamSpecInit == CamInit /\ SchedIdle /\ BankIdle /\ EncIdle /\ LsuIdle /\ GraphIdle
CamSpec == CamSpecInit /\ [][CamNext]_vars

otherThanBank == <<schedVars, camVars, encVars, lsuVars, graphVars>>
BankNext == BankCycle /\ UNCHANGED otherThanBank
BankSpecInit == BankInit /\ SchedIdle /\ CamIdle /\ EncIdle /\ LsuIdle /\ GraphIdle
BankSpec == BankSpecInit /\ [][BankNext]_vars

EncNext == EncProcess /\ UNCHANGED <<schedVars, camVars, bankVars, lsuVars, graphVars>>
EncSpecInit == EncInit /\ SchedIdle /\ CamIdle /\ BankIdle /\ LsuIdle /\ GraphIdle
EncSpec == EncSpecInit /\ [][EncNext]_vars

LsuNext == LsuConstruct \/ LsuElaborate
LsuSpecInit == LsuInit /\ SchedIdle /\ CamIdle /\ BankIdle /\ EncIdle /\ GraphIdle
LsuSpec == LsuSpecInit /\ [][LsuNext]_vars

LsuAddrNext == LsuCompare
LsuAddrSpecInit == LsuAddrInit /\ SchedIdle /\ CamIdle /\ BankIdle /\ EncIdle /\ GraphIdle
LsuAddrSpec == LsuAddrSpecInit /\ [][LsuAddrNext]_vars

GranBankSpecInit ==
    GranBankInit /\ SchedIdle /\ CamIdle /\ EncIdle /\ LsuIdle /\ GraphIdle
GranBankSpec == GranBankSpecInit /\ [][BankNext]_vars

\* The bank under the safe policy and a clock that does not stop: a cycle
\* in which no method is called and the internal transactions have work to
\* do is eventually clocked, unless a cycle with calls is.  No call is
\* forced.
BankTick == BankStep(NoRead, FALSE, NoWrite) /\ UNCHANGED otherThanBank
SafeBankSpecInit ==
    SafeBankInit /\ SchedIdle /\ CamIdle /\ EncIdle /\ LsuIdle /\ GraphIdle
BankFairSpec ==
    /\ SafeBankSpecInit
    /\ [][BankNext]_vars
    /\ WF_vars(BankTick)

GraphNext == GraphCall /\ UNCHANGED <<schedVars, camVars, bankVars, encVars, lsuVars>>
GraphSpecInit == GraphInit /\ SchedIdle /\ CamIdle /\ BankIdle /\ EncIdle /\ LsuIdle
GraphSpec == GraphSpecInit /\ [][GraphNext]_vars

(***************************************************************************)
(* Scheduler properties.                                                   *)
(***************************************************************************)
\* C1: in every cycle no two conflicting actions are both granted.
ConflictFree ==
    \A a, b \in grant : ~Conflict(a, b)

\* C1 witness: two conflicting transactions both request and are runnable,
\* and exactly one of them is granted.
ConflictFreeWitness ==
    \E a, b \in Trans :
        /\ Conflict(a, b)
        /\ Runnable(a, req, mready) /\ Runnable(b, req, mready)
        /\ a \in grant /\ b \notin grant

\* C2 (as stated): a method never has two granted callers, and when several
\* call-sites request it exactly one of them is granted.
ExactlyOneCallerGranted ==
    \A m \in Methods :
        /\ Cardinality(GrantedCallers(m)) <= 1
        /\ Cardinality(RequestingCallers(m)) >= 2
              => Cardinality(GrantedCallers(m)) = 1

\* C2 (amended): a method fires at most once per cycle: at most one of its
\* requesting call-sites is granted and it alone drives the method's input;
\* one is granted unless every requesting call-site is blocked by a granted
\* transaction that conflicts with it through another method; a method with
\* no requesting call-site (or no call-site at all) does not run.
AtMostOneCallerGranted ==
    \A m \in Methods :
        /\ Cardinality(MethodArgs(m)) <= 1
        /\ GrantedCallers(m) \subseteq RequestingCallers(m)
        /\ (RequestingCallers(m) = {} => ~MethodRun(m))
        /\ (RequestingCallers(m) # {} /\ ~MethodRun(m)
              => \A t \in RequestingCallers(m) :
                    \E u \in grant : Conflict(t, u) /\ m \notin calls[u])

\* C2 witness: two call-sites request the same method and one is granted.
AtMostOneCallerGrantedWitness ==
    \E m \in Methods :
        /\ Cardinality(RequestingCallers(m)) >= 2
        /\ Cardinality(GrantedCallers(m)) = 1

\* C3 (as stated): if A conflicts with B, A has strictly higher priority and
\* both request, then B is not granted.
PriorityRespectingOnRequest ==
    \A a, b \in Trans :
        Conflict(a, b) /\ HigherPrio(a, b)
          /\ Runnable(a, req, mready) /\ Runnable(b, req, mready)
        => b \notin grant

\* C3 (amended): if A conflicts with B, A has strictly higher priority and
\* both request, then B is granted only when A itself lost to a granted
\* action of higher priority than A that conflicts with A.
PriorityRespecting ==
    \A a, b \in Trans :
        Conflict(a, b) /\ HigherPrio(a, b)
          /\ Runnable(a, req, mready) /\ Runnable(b, req, mready)
          /\ b \in grant
        => /\ a \notin grant
           /\ \E c \in grant : Conflict(c, a) /\ HigherPrio(c, a)

\* C3 witness: A and B conflict and both request, A of higher priority is
\* granted and B is not.
PriorityRespectingWitness ==
    \E a, b \in Trans :
        /\ Conflict(a, b) /\ HigherPrio(a, b)
        /\ Runnable(a, req, mready) /\ Runnable(b, req, mready)
        /\ a \in grant /\ b \notin grant
        /\ \E c \in Trans : c \notin {a, b} /\ Runnable(c, req, mready)

(***************************************************************************)
(* ContentAddressableMemory properties.                                    *)
(***************************************************************************)
\* C10: push is ready iff at least one slot is free, where the free slots
\* are counted from the history (entries_number minus the pushes that ran
\* plus the pops that hit): once the pushes have filled every slot push is
\* not ready until a pop hit frees one.
PushReadyIffFree ==
    /\ camPushed - camHits \in 0..EntriesNumber
    /\ PushReady <=> (camPushed - camHits < EntriesNumber)
    /\ PushReady <=> (\E i \in Slots : ~valids[i])

\* C10 witness: the CAM has been filled by pushes, a pop hit has freed a
\* slot and pushes have filled it again: push is not ready.
PushReadyIffFreeWitness ==
    /\ camHits >= 1
    /\ camPushed - camHits = EntriesNumber
    /\ ~PushReady

(***************************************************************************)
(* MemoryBank properties.                                                  *)
(***************************************************************************)
\* The values a response to the outstanding read e may carry: the word its
\* address held when read_req ran, or one written to the address since.
ReadVals(e) == {e.val} \cup e.wr

\* The slots that held key k before the last cycle.
PrevMatches(k) == {i \in Slots : camPrev.valids[i] /\ camPrev.address_array[i] = k}

\* The pop of the last cycle asked for the key of the tracked push of an
\* earlier cycle, whose slot no pop had hit in between.
PopOfTracked ==
    camPrev.pop.run /\ camPrev.tracked.run /\ camPrev.pop.addr = camPrev.tracked.addr

\* C11 (as stated): whatever the store held before, push(k, v) followed in
\* a later cycle by pop(k) returns (v, not_found = 0).
RoundTripAnyContent ==
    PopOfTracked =>
        camPrev.result = [data |-> camPrev.tracked.data, not_found |-> 0]

\* C11 (amended): push(k, v) followed in a later cycle by pop(k), no pop
\* having hit the pushed slot in between, returns not_found = 0; it returns
\* v when no valid slot of lower index holds k, and the data of the lowest
\* valid slot holding k otherwise.
RoundTripLowestMatch ==
    PopOfTracked =>
        /\ camPrev.result.not_found = 0
        /\ camPrev.tracked.id \in PrevMatches(camPrev.pop.addr)
        /\ (\A i \in PrevMatches(camPrev.pop.addr) : camPrev.tracked.id <= i)
              => camPrev.result.data = camPrev.tracked.data
        /\ \A i \in PrevMatches(camPrev.pop.addr) :
              (\A j \in PrevMatches(camPrev.pop.addr) : i <= j)
                  => camPrev.result.data = camPrev.data_array[i]

\* C11 witness: a pop returned the value 1 of the tracked push, which sat in
\* a slot other than slot 0, and cleared the valid bit of that slot.
RoundTripWitness ==
    /\ PopOfTracked
    /\ camPrev.tracked.id > 0
    /\ camPrev.tracked.data = 1
    /\ camPrev.result = [data |-> 1, not_found |-> 0]
    /\ ~valids[camPrev.tracked.id]

\* C12: pop(k) with at least one valid slot holding k returns not_found = 0
\* and the data of the lowest-indexed such slot, and clears the valid bit of
\* exactly that slot at the clock edge: the other slots holding k, and every
\* other valid slot, stay valid.
PopHitLowestSlot ==
    LET M == PrevMatches(camPrev.pop.addr) IN
    camPrev.pop.run /\ M # {} =>
        \E lo \in M :
            /\ \A j \in M : lo <= j
            /\ camPrev.result = [data |-> camPrev.data_array[lo], not_found |-> 0]
            /\ ~valids[lo]
            /\ \A i \in Slots \ {lo} : camPrev.valids[i] => valids[i]
            /\ address_array[lo] = camPrev.address_array[lo]
            /\ data_array[lo] = camPrev.data_array[lo]

\* C12 witness: a pop hit while two slots held its key with different data;
\* it returned the data of the lower one and the higher one is still valid.
PopHitLowestSlotWitness ==
    /\ camPrev.pop.run
    /\ \E lo, hi \in PrevMatches(camPrev.pop.addr) :
          /\ lo < hi
          /\ camPrev.data_array[lo] # camPrev.data_array[hi]
          /\ camPrev.result.data = camPrev.data_array[lo]
          /\ ~valids[lo] /\ valids[hi]

\* C13: pop(k) is ready whatever the store holds; when no valid slot holds
\* k (a freed slot that still stores k does not count) it returns
\* not_found = 1 and changes no valid bit, key or data: the slots differ
\* from those before the cycle at most in the slot a push of the same cycle
\* filled.
PopMissNoEffect ==
    /\ PopReady
    /\ camPrev.pop.run /\ PrevMatches(camPrev.pop.addr) = {} =>
          /\ camPrev.result.not_found = 1
          /\ \A i \in Slots :
                \/ /\ valids[i] = camPrev.valids[i]
                   /\ address_array[i] = camPrev.address_array[i]
                   /\ data_array[i] = camPrev.data_array[i]
                \/ /\ camPrev.push.run
                   /\ ~camPrev.valids[i]
                   /\ \A j \in Slots : ~camPrev.valids[j] => i <= j

\* C13 witness: a pop of key 1, with no push in its cycle, missed while a
\* freed slot still stored key 1 and another slot was valid.
PopMissWitness ==
    /\ camPrev.pop.run /\ ~camPrev.push.run
    /\ camPrev.pop.addr = 1
    /\ camPrev.result.not_found = 1
    /\ \E i \in Slots : ~camPrev.valids[i] /\ camPrev.address_array[i] = 1
    /\ \E i \in Slots : camPrev.valids[i] /\ valids[i]

\* The oldest outstanding read: the one read_resp answers.
OldestRead == Head(reads)

\* C4: under the safe policy, when write(A, X) ran and read_req(A) ran in a
\* later cycle, with no other write to A between them, the response to that
\* read_req returns X.
WriteThenReadReturnsWritten ==
    safe_writes /\ ReadRespReady /\ OldestRead.aw
        => ReadRespData = OldestRead.val

\* C4 witness: read_resp is ready with the value 1 that a write call of an
\* earlier cycle than the read_req left at the address read.
WriteThenReadWitness ==
    /\ safe_writes /\ ReadRespReady /\ OldestRead.aw
    /\ OldestRead.val = 1 /\ ReadRespData = 1 /\ OldestRead.wr = {}

\* C5: under the safe policy, when write(A, X) runs in the cycle of
\* read_req(A), or while that read is outstanding, the response to the read
\* returns the value A held before the write.
SameAddrReadReturnsPreWrite ==
    safe_writes /\ ReadRespReady /\ OldestRead.wr # {}
        => ReadRespData = OldestRead.val

\* C5 witness: read_resp is ready with the pre-write value for a read whose
\* read_req ran in the cycle of a write of another value to its address.
SameAddrReadWitness ==
    /\ safe_writes /\ ReadRespReady /\ OldestRead.sc
    /\ OldestRead.val \notin OldestRead.wr
    /\ ReadRespData = OldestRead.val

\* C6: read_resp is ready only while a read_req is outstanding; every
\* outstanding read_req has exactly one response, in the read port or in
\* the response buffer, in request order; the response returned is the data
\* of the address of the oldest outstanding read_req.
ResponsesInOrder ==
    /\ Len(reads) = fifo_level
    /\ ReadRespReady => reads # <<>>
    /\ Len(reads) = (IF read_output_valid THEN 1 ELSE 0) + (IF fwd_valid THEN 1 ELSE 0)
    /\ fwd_valid => fwd_reg \in ReadVals(reads[1])
    /\ read_output_valid =>
          /\ prev_read_addr = reads[Len(reads)].addr
          /\ read_data \in ReadVals(reads[Len(reads)])
    /\ ReadRespReady => ReadRespData \in ReadVals(OldestRead)
    /\ safe_writes /\ ReadRespReady => ReadRespData = OldestRead.val
    /\ safe_writes /\ read_output_valid => read_data = reads[Len(reads)].val

\* C6 witness: two reads of different addresses, holding different data,
\* are outstanding, and read_resp is ready with the data of the older one.
ResponsesInOrderWitness ==
    /\ Len(reads) = 2
    /\ reads[1].addr # reads[2].addr
    /\ reads[1].val # reads[2].val
    /\ ReadRespReady
    /\ ReadRespData = reads[1].val
    /\ read_data = reads[2].val

\* C7 (as stated): read_req(addr) is ready iff no deferred write is pending
\* against addr (taken while the response buffer has room).
ReadReqReadyIffNoWriteToAddr ==
    \A a \in Addrs :
        Len(reads) < FifoDepth
            => (ReadReqReady(a) <=> ~(deferred.valid /\ deferred.addr = a))

\* C7 (amended): read_req(addr) is ready iff no deferred write is pending,
\* whatever its address, and fewer than two reads are outstanding.
ReadReqReadyIffNoWritePending ==
    \A a \in Addrs :
        ReadReqReady(a) <=> (~deferred.valid /\ Len(reads) < FifoDepth)

\* C7 witness: a write is deferred, the response buffer has room, and
\* read_req is not ready for another address than that of the write.
ReadReqNotReadyWitness ==
    /\ deferred.valid
    /\ Len(reads) < FifoDepth
    /\ \E a \in Addrs : a # deferred.addr /\ ~ReadReqReady(a)

\* C8 (as stated): a deferred write reaches the write port exactly one cycle
\* after its call, whether the read_req ran in the same cycle or before.
DeferredExactlyOneCycle ==
    /\ deferred.valid => deferred.age <= 1
    /\ commit.en => commit.lat <= 1

\* What holds of a step taken while a write is deferred: the write port
\* takes the deferred write in that cycle iff read_output_valid is 0.
DeferredStep ==
    deferred.valid =>
        IF read_output_valid
        THEN deferred'.valid /\ ~commit'.en /\ mem' = mem
        ELSE /\ ~deferred'.valid
             /\ commit'.en /\ commit'.lat >= 1
             /\ commit'.addr = deferred.addr /\ commit'.data = deferred.data
             /\ mem' = [mem EXCEPT ![deferred.addr] = deferred.data]

\* C8 (amended): under the safe policy a write to the address of an
\* in-flight read is deferred by at least one cycle, to the first cycle in
\* which read_output_valid is 0: at least one cycle when the read was issued
\* before, at least two when read_req runs in the cycle of the write.
DeferredUntilReadOutputTaken ==
    /\ [](/\ deferred.valid => safe_writes /\ deferred.age >= 1
          /\ deferred.valid /\ deferred.kind = "same" /\ deferred.age = 1
                => read_output_valid
          /\ commit.en /\ commit.kind = "same" => commit.lat >= 2
          /\ commit.en /\ commit.kind = "prev" => commit.lat >= 1)
    /\ [][DeferredStep]_vars

\* C8 witness: a write deferred by a read_req of its own cycle reached the
\* write port two cycles after its call.
DeferredTwoCyclesWitness ==
    commit.en /\ commit.kind = "same" /\ commit.lat = 2

\* C9: with safe_writes=False no write is deferred: write_pending is never
\* set, a write call drives the write port in its own cycle, and a read_req
\* of the same cycle to the same address reads the value just written.
UnsafeNeverDefers ==
    ~safe_writes =>
        /\ ~write_pending /\ ~deferred.valid
        /\ lastWrite.run =>
              /\ commit.en /\ commit.lat = 0
              /\ commit.addr = lastWrite.addr /\ commit.data = lastWrite.data
              /\ mem[lastWrite.addr] = lastWrite.data
        /\ lastWrite.run /\ lastRead.run /\ lastRead.addr = lastWrite.addr
              => read_output_valid /\ read_data = lastWrite.data

\* C9 witness: with safe_writes=False read_resp is ready with the value
\* written in the cycle of the read_req, which is not the value from before.
UnsafeReadSeesWriteWitness ==
    /\ ~safe_writes /\ ReadRespReady /\ OldestRead.sc
    /\ ReadRespData # OldestRead.val
    /\ ReadRespData \in OldestRead.wr

(***************************************************************************)
(* Priority encoder properties.                                            *)
(***************************************************************************)
\* The indices below width whose bit is set in x.
SetBits(width, x) == {i \in 0..(width - 1) : Bit(x, i) = 1}

\* C14: output j (counted from 0) of MultiPriorityEncoder is valid iff the
\* request vector has more than j set bits, and when valid it is the index
\* of the (j+1)-th lowest set bit; so the valid outputs are strictly
\* increasing and hold no index twice.  The assertions of the test process
\* hold of the outputs.
MultiEncoderCorrect ==
    LET R == SetBits(input_width, enc_input) IN
    /\ Len(enc_outputs) = outputs_count
    /\ \A j \in 0..(outputs_count - 1) :
          /\ enc_outputs[j + 1].valid = 1 <=> Cardinality(R) > j
          /\ enc_outputs[j + 1].valid = 1 =>
                /\ enc_outputs[j + 1].output \in R
                /\ Cardinality({k \in R : k < enc_outputs[j + 1].output}) = j
    /\ \A j1, j2 \in 1..outputs_count :
          j1 < j2 /\ enc_outputs[j1].valid = 1 /\ enc_outputs[j2].valid = 1
              => enc_outputs[j1].output < enc_outputs[j2].output
    /\ ProcessAsserts(get_expected(input_width, outputs_count, enc_input), enc_outputs)

\* C14 witness: requests 0b1010 with three outputs give the winners 1 and
\* 3 in that order and leave the third output invalid.
MultiEncoderWitness ==
    /\ input_width = 4 /\ outputs_count = 3
    /\ enc_input = 10
    /\ enc_outputs[1] = [output |-> 1, valid |-> 1]
    /\ enc_outputs[2] = [output |-> 3, valid |-> 1]
    /\ enc_outputs[3].valid = 0

\* The requesting indices met on the walk from first, from step p up to
\* but excluding step len, each step moving to the next index modulo width.
RECURSIVE RingWalk(_, _, _, _, _)
RingWalk(width, input, first, p, len) ==
    IF p >= len THEN <<>>
    ELSE (IF Bit(input, (first + p) % width) = 1
          THEN <<(first + p) % width>> ELSE <<>>)
             \o RingWalk(width, input, first, p + 1, len)

\* C15: the valid outputs of RingMultiPriorityEncoder are the first
\* outputs_count requesting indices met when walking cyclically from first
\* up to but excluding last, in that order; an index outside the window is
\* never returned, and with first = last no output is valid.  The
\* assertions of the test process hold of the outputs.
RingEncoderCorrect ==
    LET len == (enc_last - enc_first + input_width) % input_width
        walk == RingWalk(input_width, enc_input, enc_first, 0, len)
    IN /\ Len(ring_outputs) = outputs_count
       /\ \A j \in 1..outputs_count :
             IF j <= Len(walk)
             THEN ring_outputs[j].valid = 1 /\ ring_outputs[j].output = walk[j]
             ELSE ring_outputs[j].valid = 0
       /\ enc_first = enc_last => \A j \in 1..outputs_count : ring_outputs[j].valid = 0
       /\ ProcessAsserts(
              ring_get_expected(input_width, outputs_count, enc_input, enc_first, enc_last),
              ring_outputs)

\* C15 witness: the window [2, 1) over width 4 with requests 0b1011 gives
\* the winners 3 and 0 in that order, index 1 requesting but left out.
RingEncoderWitness ==
    /\ input_width = 4 /\ outputs_count = 3
    /\ enc_input = 11 /\ enc_first = 2 /\ enc_last = 1
    /\ ring_outputs[1] = [output |-> 3, valid |-> 1]
    /\ ring_outputs[2] = [output |-> 0, valid |-> 1]
    /\ ring_outputs[3].valid = 0

(***************************************************************************)
(* LsuRS properties.  What the station does, it does through the parts     *)
(* that elaborate builds: a property of insert, of select or of data_ready *)
(* is a property of a station that has them.                               *)
(***************************************************************************)
\* elaborate was called on the constructed station and has ended.
LsuElaborated == lsu_phase = "elaborated"

\* The flags of a slot that a part reads: the fields it reads other than
\* the entry and its dependency vector.
FlagsRead(part) == FieldsRead(part) \ {"rs_data", "depends"}

\* The machine address of an entry, s1_val + imm modulo 2^xlen, without its
\* two low-order bits.
MachineWord(d) == ((d.s1_val + d.imm) % (2 ^ XLen)) \div 4

\* C16 (as stated): the station has the method insert, and insert stores
\* for the entry a dependency vector, in which an entry inserted with an
\* unresolved address (rp_s1 # 0) has the bit of every older resident entry.
UnresolvedDependsOnAllOlder ==
    LsuElaborated =>
        /\ "insert" \in lsu_defined
        /\ "depends" \in FieldsWritten("insert")

\* C17 (as stated): the station has the method insert, and an entry
\* inserted with a resolved address depends on exactly the older resident
\* entries of the same address: the flag by which insert takes the address
\* of a slot for that of a resident entry is one that insert sets.
DependsExactlyOnSameAddress ==
    LsuElaborated =>
        /\ "insert" \in lsu_defined
        /\ FlagsRead("insert") \subseteq FieldsWritten("insert")

\* C18 (as stated): when the machine addresses of two entries, s1_val + imm
\* modulo 2^xlen, agree in every bit above the two low-order ones, the
\* address comparison reports a conflict.
CompareNoFalseNegative ==
    addr_same.done /\ MachineWord(addr_fst) = MachineWord(addr_snd)
        => addr_same.same

\* C19 (as stated): the station drives data_ready, and the data_ready bit
\* of an entry is 1 only when the entries it depends on have completed:
\* data_ready reads the dependency vector of the slot.
ReadyOnlyWhenDependenciesDone ==
    LsuElaborated =>
        /\ "data_ready" \in lsu_defined
        /\ "depends" \in FieldsRead("data_ready")

\* C20 (as stated): the station has select and insert, and select is not
\* ready from the cycle a fence is inserted on, and otherwise ready iff a
\* slot is not reserved.
FenceBlocksSelect ==
    LsuElaborated =>
        {"reserved_signals", "select", "insert"} \subseteq lsu_defined

\* C21 (as stated): the station has select and insert and follows the
\* reorder buffer, and select becomes ready again after the fence inserted
\* has retired.
FenceReleasedAfterRetire ==
    LsuElaborated =>
        {"select", "insert", "rob_start_idx"} \subseteq lsu_defined

\* C27 (as stated): the station has insert, select and data_ready, and
\* insert marks the slot in the flags that the slot availability of select,
\* calculate_address and data_ready read.
InsertMarksFlagsRead ==
    LsuElaborated =>
        /\ {"reserved_signals", "data_ready", "select", "insert"} \subseteq lsu_defined
        /\ FlagsRead("reserved_signals") \cup FlagsRead("data_ready")
               \cup FlagsRead("insert") \subseteq FieldsWritten("insert")

\* C24: the schedule of every cycle is maximal: every transaction that
\* requests with all its methods ready and is not granted conflicts with a
\* granted transaction, so it cannot be added to the granted set.
ScheduleMaximal ==
    \A t \in Trans :
        Runnable(t, req, mready) /\ t \notin grant
        => \E g \in grant : Conflict(t, g)

\* C24 witness: a runnable transaction b lost to a granted a of higher
\* priority, and c, which conflicts with b and has lower priority than b,
\* is granted all the same, because b is not in the granted set.
ScheduleMaximalWitness ==
    \E a, b, c \in Trans :
        /\ HigherPrio(a, b) /\ HigherPrio(b, c)
        /\ Conflict(a, b) /\ Conflict(b, c) /\ ~Conflict(a, c)
        /\ Runnable(a, req, mready) /\ Runnable(b, req, mready)
        /\ Runnable(c, req, mready)
        /\ grant = {a, c}

\* The free slots before the last cycle, and the lowest of them.
PrevFree == {i \in Slots : ~camPrev.valids[i]}
PrevLowestFree == CHOOSE i \in PrevFree : \A j \in PrevFree : i <= j

\* The pop of the last cycle hit slot i.
PrevPopHit(i) ==
    /\ camPrev.pop.run /\ PrevMatches(camPrev.pop.addr) # {}
    /\ i \in PrevMatches(camPrev.pop.addr)
    /\ \A j \in PrevMatches(camPrev.pop.addr) : i <= j

\* C25: push(k, v) writes k and v into the lowest-indexed slot that was free
\* before the cycle and marks it valid at the clock edge; the key and data of
\* every other slot are unchanged, and so is the valid bit of every other
\* slot, but for the slot that a pop of the same cycle hit.
PushWritesLowestFree ==
    camPrev.push.run =>
        /\ PrevFree # {}
        /\ address_array[PrevLowestFree] = camPrev.push.addr
        /\ data_array[PrevLowestFree] = camPrev.push.data
        /\ valids[PrevLowestFree]
        /\ \A j \in Slots \ {PrevLowestFree} :
              /\ address_array[j] = camPrev.address_array[j]
              /\ data_array[j] = camPrev.data_array[j]
              /\ \/ valids[j] = camPrev.valids[j]
                 \/ PrevPopHit(j) /\ ~valids[j]

\* C25 witness: a push with no pop in its cycle found slot 0 valid and two
\* slots above it free; it filled the lower of the two with a key and data
\* that differ from what that slot stored, and the upper one stayed free.
PushWritesLowestFreeWitness ==
    /\ camPrev.push.run /\ ~camPrev.pop.run
    /\ camPrev.valids[0]
    /\ Cardinality(PrevFree) >= 2
    /\ camPrev.address_array[PrevLowestFree] # address_array[PrevLowestFree]
    /\ camPrev.data_array[PrevLowestFree] # data_array[PrevLowestFree]
    /\ valids[PrevLowestFree]
    /\ \E j \in Slots : j > PrevLowestFree /\ ~valids[j]

\* C28: when push and pop run in the same cycle and the pop hits, the slot
\* the push selects is not the slot the pop selects (the first was free, the
\* second valid), and both effects are there after the clock edge: the
\* pushed slot is valid with the pushed key and data, the popped slot is
\* free.  The pop matches against the state before the cycle only: it
\* returns the data the lowest slot that held the key then, and with no
\* such slot pop(k) in the cycle of push(k, v) misses and leaves the pushed
\* pair stored.
PushPopSameCycle ==
    camPrev.push.run /\ camPrev.pop.run =>
        LET k == camPrev.pop.addr
        IN  /\ ~camPrev.valids[camPrev.push_id]
            /\ valids[camPrev.push_id]
            /\ address_array[camPrev.push_id] = camPrev.push.addr
            /\ data_array[camPrev.push_id] = camPrev.push.data
            /\ PrevMatches(k) # {} =>
                  /\ camPrev.push_id # camPrev.pop_id
                  /\ PrevPopHit(camPrev.pop_id)
                  /\ ~valids[camPrev.pop_id]
                  /\ camPrev.result =
                        [data |-> camPrev.data_array[camPrev.pop_id], not_found |-> 0]
            /\ PrevMatches(k) = {} =>
                  /\ camPrev.result.not_found = 1
                  /\ \A i \in Slots : valids[i] <=> (camPrev.valids[i] \/ i = camPrev.push_id)

\* C28 witness: push(k, 1) and pop(k) ran in the same cycle while one valid
\* slot held (k, 0): the pop returned 0 and freed that slot, and the pushed
\* pair (k, 1) is stored in another slot.
PushPopSameCycleWitness ==
    /\ camPrev.push.run /\ camPrev.pop.run
    /\ camPrev.push.addr = camPrev.pop.addr
    /\ camPrev.push.data = 1
    /\ camPrev.result = [data |-> 0, not_found |-> 0]
    /\ Cardinality(PrevMatches(camPrev.pop.addr)) = 1
    /\ ~valids[camPrev.pop_id]
    /\ valids[camPrev.push_id] /\ data_array[camPrev.push_id] = 1

\* The number of valid slots.
ValidCount == Cardinality({i \in Slots : valids[i]})

\* The number of valid slots that hold the pair kv.
StoredCount(kv) ==
    Cardinality({i \in Slots : valids[i] /\ <<address_array[i], data_array[i]>> = kv})

\* C29: over any sequence of pushes and pops every pop hit returns a pair
\* that was pushed earlier and has not been returned since, no pushed pair
\* is returned twice (the pairs stored in valid slots are exactly the pairs
\* pushed and not yet returned, with their multiplicities), and the number
\* of valid slots is pushes minus pop hits, within 0..entries_number.
PopReturnsLivePairs ==
    /\ ~camStray
    /\ \A kv \in CamKeys \X CamData : camLive[kv] = StoredCount(kv)
    /\ ValidCount = camPushed - camHits
    /\ ValidCount \in 0..EntriesNumber

\* C29 witness: the same pair was pushed twice and both copies were live; a
\* pop then returned one of them and the other is still stored, with more
\* pushes than slots behind it.
PopReturnsLivePairsWitness ==
    /\ camPrev.pop.run /\ camPrev.result.not_found = 0
    /\ Cardinality(PrevMatches(camPrev.pop.addr)) >= 2
    /\ camLive[<<camPrev.pop.addr, camPrev.result.data>>] = 1
    /\ camHits >= 2
    /\ camPushed > EntriesNumber

\* Every adjacency list names the vertex it belongs to in the list of each
\* of its members.
Symmetric == \A u, v \in Vertices : v \in gr[u] <=> u \in gr[v]

RECURSIVE ReachFrom(_)
\* The vertices joined by a path (of any length, 0 included) to a member
\* of S.
ReachFrom(S) ==
    LET n == S \cup UNION {gr[x] : x \in S}
    IN  IF n = S THEN S ELSE ReachFrom(n)

\* C22: on a graph given as symmetric adjacency lists _graph_ccs returns
\* the connected components: the returned sets are non-empty and pairwise
\* disjoint, every vertex is in exactly one of them, and two vertices are in
\* the same set iff a path joins them.
GraphCcsCorrect ==
    ccs_done /\ Symmetric =>
        /\ \A i \in 1..Len(ccs) : ccs[i] # {}
        /\ \A i, j \in 1..Len(ccs) : i # j => ccs[i] \cap ccs[j] = {}
        /\ \A v \in Vertices : Cardinality({i \in 1..Len(ccs) : v \in ccs[i]}) = 1
        /\ \A u, v \in Vertices :
              (\E i \in 1..Len(ccs) : u \in ccs[i] /\ v \in ccs[i])
                  <=> v \in ReachFrom({u})

\* C22 witness: vertex 1 with a self-loop and an edge to vertex 2, vertex 3
\* isolated, the keys in descending order: the result is {3} then {1, 2}.
GraphCcsWitness ==
    /\ ccs_done /\ Symmetric
    /\ gr[1] = {1, 2} /\ gr[2] = {1} /\ gr[3] = {}
    /\ gr_keys = DescendingKeys
    /\ ccs = <<{3}, {1, 2}>>

\* Under the safe policy at most one write waits, it waits in
\* write_args_prev with the address and data of its call, write is not
\* ready meanwhile, the write port has written nothing but accepted writes,
\* each once, and apart from the address of the waiting write the memory
\* holds what the write calls left.
DeferredWriteKept ==
    safe_writes =>
        /\ ~bankStray
        /\ Len(bankPending) <= 1
        /\ write_pending <=> bankPending # <<>>
        /\ bankPending # <<>> =>
              /\ write_args_prev = bankPending[1]
              /\ ~WriteReady
              /\ arch[bankPending[1].addr] = bankPending[1].data
        /\ \A a \in Addrs :
              bankPending = <<>> \/ a # bankPending[1].addr => mem[a] = arch[a]
        /\ commit.en /\ commit.lat > 0 =>
              mem[commit.addr] = commit.data /\ bankPending = <<>>

\* The read responses are eventually taken: the forwarder that holds a
\* response for read_resp is empty again and again.
ResponsesTaken == []<>(~fwd_valid)

\* C30: under the safe policy every accepted write is applied to memory
\* exactly once with its own address and data: a deferred write is not
\* lost, not overwritten by a later write and not applied twice, and,
\* provided the read responses are eventually taken, it is eventually
\* applied.
AcceptedWriteAppliedOnce ==
    /\ []DeferredWriteKept
    /\ ResponsesTaken => ((safe_writes /\ bankPending # <<>>) ~> (bankPending = <<>>))

\* C30 witness: under the safe policy a write of 1 that waited two cycles
\* or more has just been written by the write port, and no write waits.
AcceptedWriteAppliedOnceWitness ==
    /\ safe_writes
    /\ commit.en /\ commit.lat >= 2 /\ commit.data = 1
    /\ mem[commit.addr] = 1
    /\ bankPending = <<>> /\ ~write_pending

\* C26 (as stated): with granularity set, a write changes at its address
\* only the parts whose mask bit is 1 and leaves the other parts and the
\* other addresses as they were, a deferred write included, which waits
\* with the address, data and mask of its call: the memory holds, at every
\* address but that of a write still waiting, the word the masked writes
\* called so far leave.
MaskedWriteFrame ==
    granularity =>
        /\ bankPending # <<>> => write_args_prev = bankPending[1]
        /\ \A a \in Addrs :
              bankPending = <<>> \/ a # bankPending[1].addr => mem[a] = arch[a]

\* C31 (as stated): the station has the method insert, and the dependency
\* vector insert stores, in a field the slot has, has a bit set only for
\* the slots that hold an older resident entry.
DependsOnlyOnOlderResident ==
    LsuElaborated =>
        /\ "insert" \in lsu_defined
        /\ FieldsWritten("insert") \subseteq internal_layout

\* C32 (as stated): on every graph, the adjacency lists symmetric or not,
\* the two ends of every edge are in the same returned set, whatever the
\* order of the keys.
EdgeEndsTogether ==
    ccs_done =>
        \A u \in Vertices : \A v \in gr[u] :
            \E i \in 1..Len(ccs) : u \in ccs[i] /\ v \in ccs[i]

====
